---- MODULE Spec2Model ----
(***************************************************************************)
(* A model of src/main.py (import_songs.py): the value normalizer          *)
(* (clean_number, clean_value), the record builder (prepare_song_data),    *)
(* the batch loader (import_songs), the failure recorder                   *)
(* (save_failed_records) and main.                                         *)
(*                                                                         *)
(* Python values are records [t, n, s]: t is the runtime type, n the       *)
(* number (an int's value, a finite float's value in tenths, a date as     *)
(* yyyymmdd), s the characters of a str, one character per element.        *)
(***************************************************************************)
EXTENDS Integers, Sequences, FiniteSets, TLC

\* ------------------------------------------------------------------ bounds
MaxStrLen == 3   \* longest cell text enumerated for the normalizer
MaxRows == 2     \* longest DataFrame handed to import_songs
MaxClock == 1    \* latest reading of datetime.now()

\* ------------------------------------------------------------ Python values
NoneV == [t |-> "none", n |-> 0, s |-> <<>>]
NaNV == [t |-> "nan", n |-> 0, s |-> <<>>]
NaTV == [t |-> "nat", n |-> 0, s |-> <<>>]
InfV == [t |-> "inf", n |-> 1, s |-> <<>>]
NegInfV == [t |-> "inf", n |-> -1, s |-> <<>>]
IntV(k) == [t |-> "int", n |-> k, s |-> <<>>]
FloatV(tenths) == [t |-> "float", n |-> tenths, s |-> <<>>]
StrV(chars) == [t |-> "str", n |-> 0, s |-> chars]
DateV(ymd) == [t |-> "date", n |-> ymd, s |-> <<>>]

DigitChars == <<"0", "1", "2", "3", "4", "5", "6", "7", "8", "9">>
DigitSet == {DigitChars[i] : i \in 1..10}
DigitVal(c) == (CHOOSE i \in 1..10 : DigitChars[i] = c) - 1

\* pd.isna on a scalar: None, float NaN and NaT
IsNa(v) == v.t \in {"none", "nan", "nat"}

\* value == "" (true of the empty str only)
IsEmptyStr(v) == v.t = "str" /\ v.s = <<>>

\* str.replace(c, ""): every occurrence of the character removed
RECURSIVE Remove(_, _)
Remove(chars, c) ==
    IF chars = <<>> THEN <<>>
    ELSE IF Head(chars) = c THEN Remove(Tail(chars), c)
    ELSE <<Head(chars)>> \o Remove(Tail(chars), c)

\* str.strip(): leading and trailing whitespace removed
RECURSIVE LStrip(_)
LStrip(chars) ==
    IF chars # <<>> /\ Head(chars) = " " THEN LStrip(Tail(chars)) ELSE chars

RECURSIVE RStrip(_)
RStrip(chars) ==
    IF chars # <<>> /\ chars[Len(chars)] = " "
    THEN RStrip(SubSeq(chars, 1, Len(chars) - 1))
    ELSE chars

Strip(chars) == RStrip(LStrip(chars))

\* the decimal value of a run of digits
RECURSIVE DigitsValue(_)
DigitsValue(chars) ==
    IF chars = <<>> THEN 0
    ELSE 10 * DigitsValue(SubSeq(chars, 1, Len(chars) - 1))
         + DigitVal(chars[Len(chars)])

\* the characters before the first "."
RECURSIVE BeforeDot(_)
BeforeDot(chars) ==
    IF chars = <<>> \/ Head(chars) = "." THEN <<>>
    ELSE <<Head(chars)>> \o BeforeDot(Tail(chars))

CountOf(chars, c) == Cardinality({i \in 1..Len(chars) : chars[i] = c})

\* float(text): [ok, kind, trunc]; ok = FALSE is ValueError; trunc is the
\* value truncated toward zero when kind = "fin"
ParseFloat(chars) ==
    LET neg == chars # <<>> /\ Head(chars) = "-"
        body == IF neg THEN Tail(chars) ELSE chars
        numeric == /\ \A i \in 1..Len(body) : body[i] \in DigitSet \cup {"."}
                   /\ CountOf(body, ".") <= 1
                   /\ \E i \in 1..Len(body) : body[i] \in DigitSet
        whole == DigitsValue(BeforeDot(body))
    IN  IF body = <<"i", "n", "f">> THEN [ok |-> TRUE, kind |-> "inf", trunc |-> 0]
        ELSE IF body = <<"n", "a", "n">> THEN [ok |-> TRUE, kind |-> "nan", trunc |-> 0]
        ELSE IF numeric
             THEN [ok |-> TRUE, kind |-> "fin",
                   trunc |-> IF neg THEN 0 - whole ELSE whole]
        ELSE [ok |-> FALSE, kind |-> "err", trunc |-> 0]

\* int(x) of a finite float held in tenths: truncation toward zero
TruncTenths(tenths) ==
    IF tenths >= 0 THEN tenths \div 10 ELSE 0 - ((0 - tenths) \div 10)

\* the outcome of a call: the value returned, or the exception raised
Returned(v) == [exc |-> "none", msg |-> <<>>, val |-> v]
Raised(type, msg) == [exc |-> type, msg |-> msg, val |-> NoneV]

OverflowMsg == <<"cannot convert float infinity to integer">>

\* clean_number: ValueError and TypeError are caught and give None;
\* int(float("inf")) and int(inf) raise OverflowError, which is not caught
clean_number(value) ==
    IF IsNa(value) \/ IsEmptyStr(value) THEN Returned(NoneV)
    ELSE IF value.t = "str"
    THEN LET p == ParseFloat(Remove(Remove(value.s, ","), " "))
         IN  IF ~p.ok \/ p.kind = "nan" THEN Returned(NoneV)
             ELSE IF p.kind = "inf" THEN Raised("OverflowError", OverflowMsg)
             ELSE Returned(IntV(p.trunc))
    ELSE IF value.t = "int" THEN Returned(IntV(value.n))
    ELSE IF value.t = "float" THEN Returned(IntV(TruncTenths(value.n)))
    ELSE IF value.t = "inf" THEN Raised("OverflowError", OverflowMsg)
    ELSE Returned(NoneV)

\* str(datetime.date): yyyy-mm-dd
DateStr(ymd) ==
    LET d(k) == DigitChars[(k % 10) + 1]
    IN  <<d(ymd \div 10000000), d(ymd \div 1000000), d(ymd \div 100000),
          d(ymd \div 10000), "-", d(ymd \div 1000), d(ymd \div 100), "-",
          d(ymd \div 10), d(ymd)>>

\* str(int) for a non-negative int
RECURSIVE NatStr(_)
NatStr(k) ==
    IF k < 10 THEN <<DigitChars[k + 1]>>
    ELSE NatStr(k \div 10) \o <<DigitChars[(k % 10) + 1]>>

IntStr(k) == IF k < 0 THEN <<"-">> \o NatStr(0 - k) ELSE NatStr(k)

\* str(value)
PyStr(value) ==
    CASE value.t = "str" -> value.s
      [] value.t = "date" -> DateStr(value.n)
      [] value.t = "int" -> IntStr(value.n)
      [] value.t = "float" ->
            (IF value.n < 0 THEN <<"-">> ELSE <<>>)
            \o NatStr((IF value.n < 0 THEN 0 - value.n ELSE value.n) \div 10)
            \o <<".">>
            \o NatStr((IF value.n < 0 THEN 0 - value.n ELSE value.n) % 10)
      [] value.t = "inf" -> IF value.n < 0 THEN <<"-", "i", "n", "f">> ELSE <<"i", "n", "f">>
      [] value.t = "nan" -> <<"n", "a", "n">>
      [] value.t = "nat" -> <<"N", "a", "T">>
      [] OTHER -> <<"N", "o", "n", "e">>

\* clean_value
clean_value(value, field_name) ==
    IF IsNa(value) \/ IsEmptyStr(value) THEN Returned(NoneV)
    ELSE IF field_name = "youtube_views" THEN clean_number(value)
    ELSE IF value.t \in {"float", "inf"} THEN Returned(value)
    ELSE IF value.t = "int" THEN Returned(IntV(value.n))
    ELSE Returned(StrV(Strip(PyStr(value))))

\* ----------------------------------------------------------- Record Builder
\* the 17 lookups of prepare_song_data, in the order the dict literal makes them
FieldOrder ==
    <<"title", "artist", "average_score", "score_2024_10", "score_2024_q3",
      "score_2024_q2", "score_2024_q1", "score_2023", "album_date", "language",
      "genre", "playlists_name", "energy", "youtube_url", "youtube_views",
      "spotify_url", "album_name">>

Columns == {FieldOrder[i] : i \in 1..Len(FieldOrder)}

NoRecord == [f \in {} |-> NoneV]

\* one entry of the dict literal: row[field] raises KeyError when the column
\* is absent; album_date is str(...) unless NA, the others go to clean_value
FieldOutcome(row, field) ==
    IF field \notin DOMAIN row THEN Raised("KeyError", <<"'", field, "'">>)
    ELSE IF field = "album_date"
         THEN Returned(IF IsNa(row[field]) THEN NoneV ELSE StrV(PyStr(row[field])))
    ELSE clean_value(row[field], field)

\* DropNone with the filter left out: every key is kept
DropNone_KeepAll(song_data) == song_data

\* the dict comprehension of main.py:102: the keys whose value is not None
DropNone(song_data) ==
    [f \in {g \in DOMAIN song_data : song_data[g] # NoneV} |-> song_data[f]]

\* prepare_song_data: [exc, msg, rec]; the first entry that raises ends the call
prepare_song_data(row) ==
    LET bad == {i \in 1..Len(FieldOrder) : FieldOutcome(row, FieldOrder[i]).exc # "none"}
        first == CHOOSE i \in bad : \A j \in bad : i <= j
    IN  IF bad # {}
        THEN [exc |-> FieldOutcome(row, FieldOrder[first]).exc,
              msg |-> FieldOutcome(row, FieldOrder[first]).msg,
              rec |-> NoRecord]
        ELSE [exc |-> "none", msg |-> <<>>,
              rec |-> DropNone([f \in Columns |-> FieldOutcome(row, f).val])]

\* ------------------------------------------------------------------- state
VARIABLES
    pc,                 \* the statement main / import_songs is about to run
    df,                 \* the DataFrame read_csv returned: a sequence of rows
    failed_records,     \* self.failed_records
    song_data,          \* the local of import_songs: [bound, rec]
    cur,                \* the index of the row the loop holds (0: none yet)
    exc,                \* the exception the per-row except clause caught
    pending,            \* the exception leaving import_songs / main
    successful_imports, \* local counter
    failed_imports,     \* local counter
    sink,               \* the records the songs table accepted, in order
    insert_calls,       \* the rows insert(...).execute() was called for
    insert_raised,      \* the rows for which that call raised
    row_state,          \* each row's state in the batch loader
    failed_src,         \* the row each entry of failed_records came from
    save_calls,         \* calls of save_failed_records made so far
    import_calls,       \* calls of import_songs made so far
    dir_exists,         \* failed_imports/ exists
    files,              \* the files under failed_imports/
    summaries,          \* the summaries logged (total, successful, failed)
    clock,              \* the last reading of datetime.now()
    env,                \* what the run finds: both credentials set, the file readable
    cell, field, out    \* the normalizer called on one value

vars == <<pc, df, failed_records, song_data, cur, exc, pending,
          successful_imports, failed_imports, sink, insert_calls, insert_raised,
          row_state, failed_src, save_calls, import_calls, dir_exists, files,
          summaries, clock, env, cell, field, out>>

NoExc == [type |-> "none", msg |-> <<>>]
Exc(type, msg) == [type |-> type, msg |-> msg]
Unbound == [bound |-> FALSE, rec |-> NoRecord]
Bound(rec) == [bound |-> TRUE, rec |-> rec]

\* ------------------------------------------------------------------ inputs
\* a row as read_csv leaves it: text, numbers, a datetime.date, None for NaN
BaseRow ==
    [title |-> StrV(<<"a">>), artist |-> StrV(<<"b">>),
     average_score |-> FloatV(85), score_2024_10 |-> IntV(9),
     score_2024_q3 |-> FloatV(80), score_2024_q2 |-> NoneV,
     score_2024_q1 |-> NoneV, score_2023 |-> IntV(7),
     album_date |-> DateV(20240105), language |-> StrV(<<"e", "n">>),
     genre |-> StrV(<<"p", "o", "p">>), playlists_name |-> StrV(<<" ", "m", " ">>),
     energy |-> IntV(5), youtube_url |-> StrV(<<"u">>),
     youtube_views |-> StrV(<<"1", ",", "5">>), spotify_url |-> NoneV,
     album_name |-> StrV(<<"n">>)]

Titles == {StrV(<<"a">>), NoneV}
Views == {StrV(<<"1", ",", "5">>), StrV(<<"a">>), InfV}
AlbumDates == {DateV(20240105), NoneV}

SampleRows ==
    {[BaseRow EXCEPT !.title = t, !.youtube_views = v, !.album_date = d] :
        t \in Titles, v \in Views, d \in AlbumDates}

\* the column sets a file can have; read_csv itself needs album_date
ColumnSets == {Columns, Columns \ {"title"}, Columns \ {"album_name"}}

Project(row, cols) == [f \in cols |-> row[f]]

DataFrames ==
    UNION {[1..n -> {Project(r, cols) : r \in SampleRows}] :
              n \in 0..MaxRows, cols \in ColumnSets}

SinkErrors == {<<"duplicate key value violates unique constraint">>}

\* datetime.strftime of a reading t (seconds into a fixed minute)
StrfTime(fmt, t) ==
    IF fmt = "%Y-%m-%d %H:%M:%S"
    THEN <<"2024-11-02 10:00:", DigitChars[(t \div 10) + 1], DigitChars[(t % 10) + 1]>>
    ELSE <<"20241102_1000", DigitChars[(t \div 10) + 1], DigitChars[(t % 10) + 1]>>

\* ------------------------------------------------------------------- start
Init ==
    /\ pc = "main"
    /\ df = <<>>
    /\ failed_records = <<>>
    /\ song_data = Unbound
    /\ cur = 0
    /\ exc = NoExc
    /\ pending = NoExc
    /\ successful_imports = 0
    /\ failed_imports = 0
    /\ sink = <<>>
    /\ insert_calls = <<>>
    /\ insert_raised = {}
    /\ row_state = <<>>
    /\ failed_src = <<>>
    /\ save_calls = 0
    /\ import_calls = 0
    /\ dir_exists = FALSE
    /\ files = {}
    /\ summaries = <<>>
    /\ clock = 0
    /\ env \in [credentials : BOOLEAN, csv_readable : BOOLEAN]
    /\ cell = NoneV
    /\ field = "title"
    /\ out = Returned(NoneV)

normVars == <<cell, field, out>>
diskVars == <<dir_exists, files>>
sinkVars == <<sink, insert_calls, insert_raised>>
counters == <<successful_imports, failed_imports>>
callVars == <<save_calls, import_calls>>

\* -------------------------------------------------------------------- main
\* MainSetup without the test of main.py:241: the importer is made and the
\* file read whether or not the credentials are set
MainSetup_NoCheck ==
    /\ pc = "main"
    /\ failed_records' = <<>>
    /\ pc' = "read_csv"
    /\ UNCHANGED <<df, song_data, cur, exc, pending, counters, sinkVars, row_state,
                   failed_src, callVars, diskVars, summaries, clock, normVars, env>>

\* main.py:233-247: credentials, then SongDataImporter.__init__
MainSetup ==
    /\ pc = "main"
    /\ LET have_credentials == env.credentials
       IN IF have_credentials
          THEN /\ failed_records' = <<>>
               /\ pc' = "read_csv"
               /\ UNCHANGED pending
          ELSE /\ pending' = Exc("ValueError", <<"Las credenciales de Supabase no estan configuradas correctamente.">>)
               /\ pc' = "main_except"
               /\ UNCHANGED failed_records
    /\ UNCHANGED <<df, song_data, cur, exc, counters, sinkVars, row_state,
                   failed_src, callVars, diskVars, summaries, clock, normVars, env>>

\* read_csv (main.py:104-139): the DataFrame, or the error re-raised
ReadCsv ==
    /\ pc = "read_csv"
    /\ IF env.csv_readable
       THEN \E d \in DataFrames :
               /\ df' = d
               /\ pc' = "import_songs"
               /\ UNCHANGED pending
       ELSE /\ pending' = Exc("Exception", <<"read_csv">>)
            /\ pc' = "main_except"
            /\ UNCHANGED df
    /\ UNCHANGED <<failed_records, song_data, cur, exc, counters, sinkVars,
                   row_state, failed_src, callVars, diskVars, summaries, clock,
                   normVars, env>>

\* ------------------------------------------------------------ import_songs
\* ImportBegin that also empties the failure sequence of the importer
ImportBegin_ClearFailures ==
    /\ pc = "import_songs"
    /\ successful_imports' = 0
    /\ failed_imports' = 0
    /\ song_data' = Unbound
    /\ cur' = 0
    /\ exc' = NoExc
    /\ row_state' = [i \in 1..Len(df) |-> "PENDING"]
    /\ import_calls' = import_calls + 1
    /\ failed_records' = <<>>
    /\ pc' = "iter"
    /\ UNCHANGED <<df, pending, sinkVars, failed_src, save_calls,
                   diskVars, summaries, clock, normVars, env>>

\* main.py:178-180: the locals; song_data is not bound yet
ImportBegin ==
    /\ pc = "import_songs"
    /\ successful_imports' = 0
    /\ failed_imports' = 0
    /\ song_data' = Unbound
    /\ cur' = 0
    /\ exc' = NoExc
    /\ row_state' = [i \in 1..Len(df) |-> "PENDING"]
    /\ import_calls' = import_calls + 1
    /\ pc' = "iter"
    /\ UNCHANGED <<df, failed_records, pending, sinkVars, failed_src, save_calls,
                   diskVars, summaries, clock, normVars, env>>

\* main.py:183: df.iterrows() gives the next row, or the loop ends
IterNext ==
    /\ pc = "iter"
    /\ IF cur < Len(df)
       THEN /\ cur' = cur + 1
            /\ row_state' = [row_state EXCEPT ![cur + 1] = "NORMALIZING"]
            /\ pc' = "prepare"
       ELSE /\ pc' = "finally"
            /\ UNCHANGED <<cur, row_state>>
    /\ UNCHANGED <<df, failed_records, song_data, exc, pending, counters, sinkVars,
                   failed_src, callVars, diskVars, summaries, clock, normVars, env>>

\* PrepareRow without the log line of main.py:188-190: a record with no
\* title goes on to the insert
PrepareRow_NoTitleLog ==
    /\ pc = "prepare"
    /\ LET r == prepare_song_data(df[cur])
       IN  IF r.exc # "none"
           THEN /\ exc' = Exc(r.exc, r.msg)
                /\ pc' = "handler"
                /\ UNCHANGED <<song_data, row_state>>
           ELSE /\ song_data' = Bound(r.rec)
                /\ pc' = "insert"
                /\ row_state' = [row_state EXCEPT ![cur] = "INSERTING"]
                /\ UNCHANGED exc
    /\ UNCHANGED <<df, failed_records, cur, pending, counters, sinkVars, failed_src,
                   callVars, diskVars, summaries, clock, normVars, env>>

\* main.py:186-190: prepare_song_data(row), then the log line reads
\* song_data['title'], a KeyError when the record has no title
PrepareRow ==
    /\ pc = "prepare"
    /\ LET r == prepare_song_data(df[cur])
       IN  IF r.exc # "none"
           THEN /\ exc' = Exc(r.exc, r.msg)
                /\ pc' = "handler"
                /\ UNCHANGED <<song_data, row_state>>
           ELSE /\ song_data' = Bound(r.rec)
                /\ IF "title" \in DOMAIN r.rec
                   THEN /\ pc' = "insert"
                        /\ row_state' = [row_state EXCEPT ![cur] = "INSERTING"]
                        /\ UNCHANGED exc
                   ELSE /\ exc' = Exc("KeyError", <<"'", "title", "'">>)
                        /\ pc' = "handler"
                        /\ UNCHANGED row_state
    /\ UNCHANGED <<df, failed_records, cur, pending, counters, sinkVars, failed_src,
                   callVars, diskVars, summaries, clock, normVars, env>>

\* InsertRow with the success counted before the call: a raising insert
\* has been counted as a success too
InsertRow_CountFirst ==
    /\ pc = "insert"
    /\ insert_calls' = Append(insert_calls, cur)
    /\ successful_imports' = successful_imports + 1
    /\ \/ /\ sink' = Append(sink, song_data.rec)
          /\ row_state' = [row_state EXCEPT ![cur] = "SUCCEEDED"]
          /\ pc' = "iter"
          /\ UNCHANGED <<exc, insert_raised, failed_imports>>
       \/ \E m \in SinkErrors :
             /\ exc' = Exc("APIError", m)
             /\ insert_raised' = insert_raised \cup {cur}
             /\ pc' = "handler"
             /\ UNCHANGED <<sink, failed_imports, row_state>>
    /\ UNCHANGED <<df, failed_records, song_data, cur, pending, failed_src,
                   callVars, diskVars, summaries, clock, normVars, env>>

\* InsertRow with one retry: a first failure of the insert is tried again
InsertRow_RetryOnce ==
    /\ pc = "insert"
    /\ insert_calls' = Append(insert_calls, cur)
    /\ \/ /\ sink' = Append(sink, song_data.rec)
          /\ successful_imports' = successful_imports + 1
          /\ row_state' = [row_state EXCEPT ![cur] = "SUCCEEDED"]
          /\ pc' = "iter"
          /\ UNCHANGED <<exc, insert_raised, failed_imports>>
       \/ \E m \in SinkErrors :
             /\ exc' = Exc("APIError", m)
             /\ insert_raised' = insert_raised \cup {cur}
             /\ pc' = IF cur \in insert_raised THEN "handler" ELSE "insert"
             /\ UNCHANGED <<sink, counters, row_state>>
    /\ UNCHANGED <<df, failed_records, song_data, cur, pending, failed_src,
                   callVars, diskVars, summaries, clock, normVars, env>>

\* main.py:193-198: the insert returns (the row is in the table) or raises
InsertRow ==
    /\ pc = "insert"
    /\ insert_calls' = Append(insert_calls, cur)
    /\ \/ /\ sink' = Append(sink, song_data.rec)
          /\ successful_imports' = successful_imports + 1
          /\ row_state' = [row_state EXCEPT ![cur] = "SUCCEEDED"]
          /\ pc' = "iter"
          /\ UNCHANGED <<exc, insert_raised, failed_imports>>
       \/ \E m \in SinkErrors :
             /\ exc' = Exc("APIError", m)
             /\ insert_raised' = insert_raised \cup {cur}
             /\ pc' = "handler"
             /\ UNCHANGED <<sink, counters, row_state>>
    /\ UNCHANGED <<df, failed_records, song_data, cur, pending, failed_src,
                   callVars, diskVars, summaries, clock, normVars, env>>

\* failed_record = row.to_dict() with error_message and error_time
FailedRecord(row, e, t) ==
    [k \in DOMAIN row \cup {"error_message", "error_time"} |->
        IF k = "error_message" THEN StrV(e.msg)
        ELSE IF k = "error_time" THEN StrV(StrfTime("%Y-%m-%d %H:%M:%S", t))
        ELSE row[k]]

\* HandleFailure with break in place of continue: the first failure ends the loop
HandleFailure_Break ==
    /\ pc = "handler"
    /\ IF song_data.bound
       THEN \E t \in clock..MaxClock :
               /\ clock' = t
               /\ failed_records' = Append(failed_records, FailedRecord(df[cur], exc, t))
               /\ failed_src' = Append(failed_src, cur)
               /\ failed_imports' = failed_imports + 1
               /\ row_state' = [row_state EXCEPT ![cur] = "FAILED"]
               /\ exc' = NoExc
               /\ pc' = "finally"
               /\ UNCHANGED pending
       ELSE /\ pending' = Exc("UnboundLocalError", <<"local variable 'song_data' referenced before assignment">>)
            /\ exc' = NoExc
            /\ pc' = "finally"
            /\ UNCHANGED <<clock, failed_records, failed_src, failed_imports, row_state>>
    /\ UNCHANGED <<df, song_data, cur, successful_imports, sinkVars, callVars,
                   diskVars, summaries, normVars, env>>

\* HandleFailure with song_data bound before the loop: the clause never
\* raises and every failure is recorded
HandleFailure_NoNameError ==
    /\ pc = "handler"
    /\ \E t \in clock..MaxClock :
          /\ clock' = t
          /\ failed_records' = Append(failed_records, FailedRecord(df[cur], exc, t))
          /\ failed_src' = Append(failed_src, cur)
          /\ failed_imports' = failed_imports + 1
          /\ row_state' = [row_state EXCEPT ![cur] = "FAILED"]
          /\ exc' = NoExc
          /\ pc' = "iter"
          /\ UNCHANGED pending
    /\ UNCHANGED <<df, song_data, cur, successful_imports, sinkVars, callVars,
                   diskVars, summaries, normVars, env>>

\* HandleFailure with insert(0, ...) in place of append: newest first
HandleFailure_Prepend ==
    /\ pc = "handler"
    /\ IF song_data.bound
       THEN \E t \in clock..MaxClock :
               /\ clock' = t
               /\ failed_records' = <<FailedRecord(df[cur], exc, t)>> \o failed_records
               /\ failed_src' = <<cur>> \o failed_src
               /\ failed_imports' = failed_imports + 1
               /\ row_state' = [row_state EXCEPT ![cur] = "FAILED"]
               /\ exc' = NoExc
               /\ pc' = "iter"
               /\ UNCHANGED pending
       ELSE /\ pending' = Exc("UnboundLocalError", <<"local variable 'song_data' referenced before assignment">>)
            /\ exc' = NoExc
            /\ pc' = "finally"
            /\ UNCHANGED <<clock, failed_records, failed_src, failed_imports, row_state>>
    /\ UNCHANGED <<df, song_data, cur, successful_imports, sinkVars, callVars,
                   diskVars, summaries, normVars, env>>

\* main.py:200-217: the per-row except clause. Its second log line reads
\* song_data: while no call of prepare_song_data has returned in this run
\* the name is unbound and the clause itself raises UnboundLocalError, which
\* the outer except logs and re-raises.
HandleFailure ==
    /\ pc = "handler"
    /\ IF song_data.bound
       THEN \E t \in clock..MaxClock :
               /\ clock' = t
               /\ failed_records' = Append(failed_records, FailedRecord(df[cur], exc, t))
               /\ failed_src' = Append(failed_src, cur)
               /\ failed_imports' = failed_imports + 1
               /\ row_state' = [row_state EXCEPT ![cur] = "FAILED"]
               /\ exc' = NoExc
               /\ pc' = "iter"
               /\ UNCHANGED pending
       ELSE /\ pending' = Exc("UnboundLocalError", <<"local variable 'song_data' referenced before assignment">>)
            /\ exc' = NoExc
            /\ pc' = "finally"
            /\ UNCHANGED <<clock, failed_records, failed_src, failed_imports, row_state>>
    /\ UNCHANGED <<df, song_data, cur, successful_imports, sinkVars, callVars,
                   diskVars, summaries, normVars, env>>

\* ------------------------------------------------------- Failure Recorder
\* DataFrame.to_csv writes every cell as text, a missing value as nothing
CsvCell(v) == IF IsNa(v) THEN <<>> ELSE PyStr(v)
CsvRow(rec) == [k \in DOMAIN rec |-> CsvCell(rec[k])]
CsvText(records) == [i \in 1..Len(records) |-> CsvRow(records[i])]

\* json.dump raises TypeError on a value that is no JSON type (datetime.date,
\* NaT); None, str, int and float are written and read back as themselves
JsonSerializable(rec) == \A k \in DOMAIN rec : rec[k].t \notin {"date", "nat"}

\* the records json.dump has written in full when it raises (all, if it does not)
JsonWritten(records) ==
    LET bad == {i \in 1..Len(records) : ~JsonSerializable(records[i])}
    IN  IF bad = {} THEN records
        ELSE SubSeq(records, 1, (CHOOSE i \in bad : \A j \in bad : i <= j) - 1)

CsvFile(stamp, records) ==
    [kind |-> "csv", stamp |-> stamp, n |-> Len(records), complete |-> TRUE,
     text |-> CsvText(records), doc |-> <<>>]
JsonFile(stamp, records) ==
    [kind |-> "json", stamp |-> stamp, n |-> Len(JsonWritten(records)),
     complete |-> JsonWritten(records) = records,
     text |-> <<>>, doc |-> JsonWritten(records)]

\* open(path, "w") and to_csv replace a file of the same name
WriteFile(fs, f) ==
    {g \in fs : ~(g.kind = f.kind /\ g.stamp = f.stamp)} \cup {f}

\* SaveFailedRecords without the early return of main.py:145-147: the
\* directory and both files are made for an empty failure sequence too
SaveFailedRecords_NoGuard ==
    /\ pc = "finally"
    /\ save_calls' = save_calls + 1
    /\ \E t \in clock..MaxClock :
          LET stamp == StrfTime("%Y%m%d_%H%M%S", t)
          IN  /\ clock' = t
              /\ dir_exists' = TRUE
              /\ files' = WriteFile(WriteFile(files, CsvFile(stamp, failed_records)),
                                    JsonFile(stamp, failed_records))
              /\ IF JsonWritten(failed_records) = failed_records
                 THEN /\ pc' = "summary"
                      /\ UNCHANGED pending
                 ELSE /\ pc' = "main_except"
                      /\ pending' = Exc("TypeError", <<"Object of type date is not JSON serializable">>)
    /\ UNCHANGED <<df, failed_records, song_data, cur, exc, counters, sinkVars,
                   row_state, failed_src, import_calls, summaries, normVars, env>>

\* save_failed_records (main.py:141-172), as the finally clause of
\* import_songs calls it (main.py:220). When json.dump raises, the CSV is
\* written, the JSON file is left cut short, and the TypeError leaves
\* import_songs in place of any exception on its way out; the summary of
\* main.py:222 is not reached.
SaveFailedRecords ==
    /\ pc = "finally"
    /\ save_calls' = save_calls + 1
    /\ IF failed_records = <<>>
       THEN /\ pc' = "summary"
            /\ UNCHANGED <<diskVars, clock, pending>>
       ELSE \E t \in clock..MaxClock :
               LET stamp == StrfTime("%Y%m%d_%H%M%S", t)
               IN  /\ clock' = t
                   /\ dir_exists' = TRUE
                   /\ files' = WriteFile(WriteFile(files, CsvFile(stamp, failed_records)),
                                         JsonFile(stamp, failed_records))
                   /\ IF JsonWritten(failed_records) = failed_records
                      THEN /\ pc' = "summary"
                           /\ UNCHANGED pending
                      ELSE /\ pc' = "main_except"
                           /\ pending' = Exc("TypeError", <<"Object of type date is not JSON serializable">>)
    /\ UNCHANGED <<df, failed_records, song_data, cur, exc, counters, sinkVars,
                   row_state, failed_src, import_calls, summaries, normVars, env>>

\* main.py:222-229: the summary; then import_songs returns, or the exception
\* of the loop goes on to main
LogSummary ==
    /\ pc = "summary"
    /\ summaries' = Append(summaries,
                           [total |-> Len(df), ok |-> successful_imports,
                            failed |-> failed_imports])
    /\ pc' = IF pending = NoExc THEN "main_completed" ELSE "main_except"
    /\ UNCHANGED <<df, failed_records, song_data, cur, exc, pending, counters,
                   sinkVars, row_state, failed_src, callVars, diskVars, clock,
                   normVars, env>>

\* main.py:256: "Proceso de importacion completado."
MainCompleted ==
    /\ pc = "main_completed"
    /\ pc' = "done"
    /\ UNCHANGED <<df, failed_records, song_data, cur, exc, pending, counters,
                   sinkVars, row_state, failed_src, callVars, diskVars, summaries,
                   clock, normVars, env>>

\* main.py:258-260: the error is logged and re-raised
MainExcept ==
    /\ pc = "main_except"
    /\ pc' = "raised"
    /\ UNCHANGED <<df, failed_records, song_data, cur, exc, pending, counters,
                   sinkVars, row_state, failed_src, callVars, diskVars, summaries,
                   clock, normVars, env>>

Next ==
    \/ MainSetup
    \/ ReadCsv
    \/ ImportBegin
    \/ IterNext
    \/ PrepareRow
    \/ InsertRow
    \/ HandleFailure
    \/ SaveFailedRecords
    \/ LogSummary
    \/ MainCompleted
    \/ MainExcept

Spec == Init /\ [][Next]_vars

\* ------------------------------------------- the normalizer on one value
\* every text of at most MaxStrLen of these characters, the texts float()
\* reads as infinite or not-a-number, and one value of every other shape a
\* cell can have
NormChars == {"1", ",", " ", ".", "-", "a"}

RECURSIVE Texts(_)
Texts(n) ==
    IF n = 0 THEN {<<>>}
    ELSE Texts(n - 1) \cup {Append(w, c) : w \in Texts(n - 1), c \in NormChars}

SpecialTexts ==
    {<<"i", "n", "f">>, <<"-", "i", "n", "f">>, <<"i", "n", ",", "f">>,
     <<"n", "a", "n">>, <<" ", "i", "n", "f", " ">>}

CellValues ==
    {StrV(w) : w \in Texts(MaxStrLen) \cup SpecialTexts}
    \cup {NoneV, NaNV, NaTV, InfV, NegInfV, DateV(20240105)}
    \cup {IntV(k) : k \in {-15, 0, 7}}
    \cup {FloatV(k) : k \in {-15, 5, 85}}

\* one value and one field name; the loop holds the row that is BaseRow with
\* the value in that field
NormInit ==
    /\ cell \in CellValues
    /\ field \in Columns
    /\ out = Returned(NoneV)
    /\ pc = "prepare"
    /\ df = <<[BaseRow EXCEPT ![field] = cell]>>
    /\ cur = 1
    /\ row_state = <<"NORMALIZING">>
    /\ failed_records = <<>>
    /\ song_data = Unbound
    /\ exc = NoExc
    /\ pending = NoExc
    /\ successful_imports = 0
    /\ failed_imports = 0
    /\ sink = <<>>
    /\ insert_calls = <<>>
    /\ insert_raised = {}
    /\ failed_src = <<>>
    /\ save_calls = 0
    /\ import_calls = 1
    /\ dir_exists = FALSE
    /\ files = {}
    /\ summaries = <<>>
    /\ clock = 0
    /\ env = [credentials |-> TRUE, csv_readable |-> TRUE]

flowVars == <<df, failed_records, song_data, cur, exc, pending, counters, sinkVars,
              row_state, failed_src, callVars, diskVars, summaries, clock, env>>

\* clean_value(cell, field)
CallCleanValue ==
    /\ pc = "prepare"
    /\ out' = clean_value(cell, field)
    /\ pc' = "clean_value"
    /\ UNCHANGED <<cell, field, flowVars>>

\* clean_number(cell)
CallCleanNumber ==
    /\ pc = "prepare"
    /\ out' = clean_number(cell)
    /\ pc' = "clean_number"
    /\ UNCHANGED <<cell, field, flowVars>>

\* the normalizer alone, and the loop body on the row
NormNext == CallCleanValue \/ CallCleanNumber \/ PrepareRow \/ InsertRow

SpecNorm == NormInit /\ [][NormNext]_vars

\* ------------------------------------ one importer, several import_songs
\* import_songs is a method of the importer: a caller that keeps the
\* importer can call it again. MaxCalls is the number of calls of a run.
MaxCalls == 2

\* a row that normalizes to a record the sink can take
GoodRow == BaseRow
\* a row with no title and no album date: it fails at the log line
UntitledRow == [BaseRow EXCEPT !.title = NoneV, !.album_date = NoneV]

\* the DataFrames of the calls: none, one or two rows
MultiFrames == {<<>>, <<GoodRow>>, <<UntitledRow>>, <<UntitledRow, GoodRow>>}

\* the importer is made (main.py:24-35) and a first DataFrame is read
MultiInit ==
    /\ pc = "import_songs"
    /\ df \in MultiFrames
    /\ failed_records = <<>>
    /\ song_data = Unbound
    /\ cur = 0
    /\ exc = NoExc
    /\ pending = NoExc
    /\ successful_imports = 0
    /\ failed_imports = 0
    /\ sink = <<>>
    /\ insert_calls = <<>>
    /\ insert_raised = {}
    /\ row_state = <<>>
    /\ failed_src = <<>>
    /\ save_calls = 0
    /\ import_calls = 0
    /\ dir_exists = FALSE
    /\ files = {}
    /\ summaries = <<>>
    /\ clock = 0
    /\ env = [credentials |-> TRUE, csv_readable |-> TRUE]
    /\ cell = NoneV
    /\ field = "title"
    /\ out = Returned(NoneV)

\* import_songs has returned or raised (the caller catches the exception);
\* the caller gives the same importer another DataFrame. The importer keeps
\* self.failed_records; the calls given to the sink are counted per call.
ImportAgain ==
    /\ pc \in {"main_completed", "main_except"}
    /\ import_calls < MaxCalls
    /\ \E d \in MultiFrames : df' = d
    /\ pending' = NoExc
    /\ insert_calls' = <<>>
    /\ insert_raised' = {}
    /\ pc' = "import_songs"
    /\ UNCHANGED <<failed_records, song_data, cur, exc, counters, sink, row_state,
                   failed_src, callVars, diskVars, summaries, clock, normVars, env>>

MultiNext ==
    \/ ImportAgain
    \/ ImportBegin
    \/ IterNext
    \/ PrepareRow
    \/ InsertRow
    \/ HandleFailure
    \/ SaveFailedRecords
    \/ LogSummary

SpecMulti == MultiInit /\ [][MultiNext]_vars

\* ------------------------------------------------------------------ claims
Terminal == {"SUCCEEDED", "FAILED"}

\* the recorder has been called: the loop of this run is over
LoopOver == save_calls >= 1

\* the row's normalization returns a record that has a title, so that the
\* loop body reaches the insert
Normalizes(row) ==
    LET r == prepare_song_data(row)
    IN  r.exc = "none" /\ "title" \in DOMAIN r.rec

\* entry j of the failure sequence is row i's: its raw values, a message, a time
RecordsRow(j, i) ==
    /\ failed_src[j] = i
    /\ DOMAIN failed_records[j] = DOMAIN df[i] \cup {"error_message", "error_time"}
    /\ \A c \in DOMAIN df[i] : failed_records[j][c] = df[i][c]
    /\ failed_records[j]["error_message"].t = "str"
    /\ failed_records[j]["error_time"].t = "str"

IsolatedFailure(k) ==
    /\ cur = Len(df)
    /\ \A i \in 1..Len(df) : row_state[i] \in Terminal
    /\ failed_imports = 1
    /\ successful_imports = Len(df) - 1
    /\ Len(failed_records) = 1
    /\ RecordsRow(1, k)

C2_RecorderOnceAfterLastRow ==
    /\ pc \in {"import_songs", "iter", "prepare", "insert", "handler", "finally"}
          => save_calls = 0
    /\ (import_calls = 1 /\ pc \in {"summary", "main_completed", "main_except",
                                     "done", "raised"})
          => save_calls = 1
    /\ LoopOver => \A i \in 1..cur : row_state[i] \in Terminal

\* C3: when the recorder is called, every row that was pulled and is not in
\* the sink has its FailedRecord (raw values, message, time) in the failure
\* sequence.
C3_NoRowLost ==
    LoopOver =>
        \A i \in 1..cur :
            row_state[i] # "SUCCEEDED"
                => \E j \in 1..Len(failed_records) : RecordsRow(j, i)

\* C4: a row whose normalization raises becomes FAILED with no insert
\* attempted, a FailedRecord carrying the message, and the loop goes on to
\* the end of the source; no exception of the per-row scope leaves
\* import_songs.
C4_NormalizationFailureIsPerRow ==
    /\ pc = "finally" => pending = NoExc
    /\ LoopOver =>
          \A i \in 1..Len(df) :
              prepare_song_data(df[i]).exc # "none" =>
                  /\ cur = Len(df)
                  /\ row_state[i] = "FAILED"
                  /\ \A c \in 1..Len(insert_calls) : insert_calls[c] # i
                  /\ \E j \in 1..Len(failed_records) :
                        /\ RecordsRow(j, i)
                        /\ failed_records[j]["error_message"].s
                              = prepare_song_data(df[i]).msg

\* the batch stopped at its first row: nothing normalized after it, nothing
\* inserted, no FailedRecord
AbortedAtFirstRow ==
    /\ cur = 1
    /\ row_state[1] = "NORMALIZING"
    /\ \A i \in 2..Len(df) : row_state[i] = "PENDING"
    /\ insert_calls = <<>>
    /\ sink = <<>>
    /\ failed_records = <<>>
    /\ failed_imports = 0

MissingColumn == Len(df) >= 1 /\ DOMAIN df[1] # Columns

C6_NormalizerTotal ==
    /\ pc \in {"clean_value", "clean_number"} => out.exc = "none"
    /\ pc = "handler" => exc.type # "OverflowError"

\* C7: the record prepare_song_data returns has keys among the 17 fields
\* only, no None value, and a field exactly when its cleaned value is not
\* None; so no record given to the insert holds a None.
C7_NoNullInRecord ==
    /\ song_data.bound =>
          /\ DOMAIN song_data.rec \subseteq Columns
          /\ \A f \in DOMAIN song_data.rec : song_data.rec[f] # NoneV
          /\ \A f \in Columns :
                f \in DOMAIN song_data.rec
                    <=> FieldOutcome(df[cur], f).val # NoneV
    /\ \A i \in 1..Len(sink) :
          /\ DOMAIN sink[i] \subseteq Columns
          /\ \A f \in DOMAIN sink[i] : sink[i][f] # NoneV

C7_Witness ==
    /\ Len(sink) = 1
    /\ field = "youtube_views"
    /\ cell = StrV(<<"a">>)
    /\ DOMAIN sink[1] = Columns \ {"score_2024_q2", "score_2024_q1", "spotify_url",
                                   "youtube_views"}

\* C8: called with a non-empty failure sequence, the recorder leaves both
\* failed_records_<stamp>.csv and failed_records_<stamp>.json, of one stamp,
\* each holding the whole failure sequence, whatever the rows hold.
C8_BothArtifacts ==
    (LoopOver /\ failed_records # <<>>) =>
        \E c \in files, j \in files :
            /\ c.kind = "csv" /\ j.kind = "json"
            /\ c.stamp = j.stamp
            /\ c.complete /\ c.text = CsvText(failed_records)
            /\ j.complete /\ j.doc = failed_records

\* C9: called with an empty failure sequence, the recorder creates no
\* directory, writes no file and raises nothing.
C9_EmptyIsNoOp ==
    [][(pc = "finally" /\ failed_records = <<>>)
          => (/\ dir_exists' = dir_exists
              /\ files' = files
              /\ pending' = pending
              /\ save_calls' = save_calls + 1
              /\ pc' = "summary")]_vars

C9_Witness ==
    /\ pc = "summary"
    /\ Len(df) = 2
    /\ successful_imports = 2
    /\ failed_records = <<>>
    /\ ~dir_exists
    /\ files = {}

IsPrefix(a, b) == Len(a) <= Len(b) /\ SubSeq(b, 1, Len(a)) = a

InsertCalled(i) == \E c \in 1..Len(insert_calls) : insert_calls[c] = i
Accepted(i) == InsertCalled(i) /\ i \notin insert_raised

\* C11: rows are taken in source order, the next one only once the one
\* before is SUCCEEDED or FAILED; the insert is called at most once per row;
\* a row that is SUCCEEDED or FAILED stays so; a row is SUCCEEDED only if
\* its own insert call returned.
C11_RowStateMachine ==
    /\ [](/\ cur \in 0..Len(df)
          /\ \A i \in 1..Len(row_state) :
                /\ i < cur => row_state[i] \in Terminal
                /\ i > cur => row_state[i] = "PENDING"
                /\ row_state[i] = "SUCCEEDED" => Accepted(i)
                /\ row_state[i] = "INSERTING" => i = cur
          /\ \A c \in 1..Len(insert_calls) : insert_calls[c] \in 1..cur
          /\ \A c \in 1..(Len(insert_calls) - 1) : insert_calls[c] < insert_calls[c + 1]
          /\ Len(sink) = Cardinality({i \in 1..Len(row_state) : row_state[i] = "SUCCEEDED"}))
    /\ [][/\ cur' \in {cur, cur + 1} \/ pc = "import_songs"
          /\ \A i \in (DOMAIN row_state) \cap (DOMAIN row_state') :
                row_state[i] \in Terminal => row_state'[i] = row_state[i]]_vars

C11_Witness ==
    /\ Len(df) = 2
    /\ row_state = <<"FAILED", "SUCCEEDED">>
    /\ insert_calls = <<1, 2>>
    /\ insert_raised = {1}

StartupOk == env.credentials /\ env.csv_readable

\* C12: with both credentials set and the file read and parsed, main
\* completes normally whatever the number of failed rows: no exception
\* leaves it.
C12_CompletesNormally ==
    StartupOk => pc \notin {"main_except", "raised"}

NothingProcessed ==
    /\ import_calls = 0
    /\ cur = 0
    /\ ~song_data.bound
    /\ insert_calls = <<>>
    /\ sink = <<>>
    /\ failed_records = <<>>
    /\ save_calls = 0
    /\ ~dir_exists
    /\ files = {}

\* C13: a row is normalized, an insert called or an artifact written only
\* when both credentials were set and the file was read; otherwise the
\* error leaves main with nothing normalized, inserted or written.
C13_StartupErrorsFirst ==
    /\ ~NothingProcessed => StartupOk
    /\ ~StartupOk =>
          /\ pc \in {"main", "read_csv", "main_except", "raised"}
          /\ pc \in {"main_except", "raised"} => pending # NoExc
    /\ pc \in {"main", "read_csv"} => NothingProcessed

C13_Witness ==
    /\ pc = "raised"
    /\ env.credentials
    /\ ~env.csv_readable
    /\ pending.type = "Exception"
    /\ NothingProcessed

\* import_songs has returned or raised
ImportExited ==
    import_calls >= 1 /\ pc \in {"main_completed", "main_except", "done", "raised"}

\* C14: on every exit path of import_songs, also with an exception on its
\* way out, the summary is logged exactly once, after the recorder was
\* called, with the total, successful and failed counts as they stand.
C14_SummaryOnce ==
    /\ Len(summaries) >= 1 => save_calls >= 1
    /\ ImportExited =>
          summaries = <<[total |-> Len(df), ok |-> successful_imports,
                         failed |-> failed_imports]>>

\* C15: every value of the record prepare_song_data returns, given back to
\* the normalizer under its own field name (clean_value, clean_number for
\* youtube_views, str() for album_date), comes back as the same value of
\* the same type.
C15_Idempotent ==
    song_data.bound =>
        \A f \in DOMAIN song_data.rec :
            /\ FieldOutcome(song_data.rec, f) = Returned(song_data.rec[f])
            /\ f = "youtube_views"
                  => clean_number(song_data.rec[f]) = Returned(song_data.rec[f])

RowsIn(state) == Cardinality({i \in 1..Len(row_state) : row_state[i] = state})

\* C16: within one call the successful count is the number of SUCCEEDED
\* rows and the failed count the number of FAILED rows and of FailedRecords
\* appended; between rows they add up to the rows processed; a row reaching
\* a terminal state moves exactly one of them by one and nothing else moves
\* them; when the loop exhausts the source they add up to the total.
C16_CounterConsistency ==
    /\ [](/\ successful_imports = RowsIn("SUCCEEDED")
          /\ failed_imports = RowsIn("FAILED")
          /\ failed_imports = Len(failed_records)
          /\ pc = "iter" => successful_imports + failed_imports = cur)
    /\ [][/\ \A i \in (DOMAIN row_state) \cap (DOMAIN row_state') :
                (row_state[i] \notin Terminal /\ row_state'[i] \in Terminal) =>
                    \/ /\ row_state'[i] = "SUCCEEDED"
                       /\ successful_imports' = successful_imports + 1
                       /\ failed_imports' = failed_imports
                    \/ /\ row_state'[i] = "FAILED"
                       /\ failed_imports' = failed_imports + 1
                       /\ successful_imports' = successful_imports
          /\ (successful_imports' # successful_imports \/ failed_imports' # failed_imports)
                => \E i \in (DOMAIN row_state) \cap (DOMAIN row_state') :
                      row_state[i] \notin Terminal /\ row_state'[i] \in Terminal
          /\ (pc = "iter" /\ pc' = "finally")
                => successful_imports' + failed_imports' = Len(df)]_vars

C16_Witness ==
    /\ pc = "finally"
    /\ pending = NoExc
    /\ Len(df) = 2
    /\ successful_imports = 1
    /\ failed_imports = 1

\* the row's record is built and has no title key
NoTitle(row) ==
    LET r == prepare_song_data(row)
    IN  r.exc = "none" /\ "title" \notin DOMAIN r.rec

\* C17: a row whose record has no title is never given to the insert: the
\* title lookup of the log line raises in the per-row scope, the row is
\* FAILED with its FailedRecord and the loop goes on to the end of the
\* source; every record in the sink has a title that is not None.
C17_NullTitleNeverInserted ==
    /\ \A i \in 1..Len(sink) :
          "title" \in DOMAIN sink[i] /\ sink[i]["title"] # NoneV
    /\ \A i \in 1..cur :
          NoTitle(df[i]) =>
              /\ ~InsertCalled(i)
              /\ (i < cur \/ LoopOver) =>
                    /\ row_state[i] = "FAILED"
                    /\ failed_imports >= 1
                    /\ \E j \in 1..Len(failed_records) :
                          /\ RecordsRow(j, i)
                          /\ failed_records[j]["error_message"].s = <<"'", "title", "'">>
              /\ LoopOver => cur = Len(df)

C17_Witness ==
    /\ LoopOver
    /\ Len(df) = 2
    /\ "title" \in DOMAIN df[1]
    /\ NoTitle(df[1])
    /\ row_state = <<"FAILED", "SUCCEEDED">>

\* the step is the Failure Recorder's, called with a failure sequence that
\* is not empty
RecorderRuns == pc = "finally" /\ pc' # "finally" /\ failed_records # <<>>

\* C18: no step of any import_songs call on the importer takes a record
\* out of the failure sequence or changes one: it only grows, over the
\* calls too. So the Failure Recorder of a later call, whenever the
\* sequence is not empty (the call's own failures or not), makes the
\* directory and writes a CSV file holding every FailedRecord of every
\* call so far and a JSON file of the same stamp, which holds them all
\* when json.dump can write them all.
C18_FailuresNeverCleared ==
    /\ [][IsPrefix(failed_records, failed_records')]_vars
    /\ [][RecorderRuns =>
             /\ dir_exists'
             /\ \E f \in files', g \in files' :
                   /\ f.kind = "csv"
                   /\ f.text = CsvText(failed_records)
                   /\ f.n = Len(failed_records)
                   /\ g.kind = "json"
                   /\ g.stamp = f.stamp
                   /\ (\A i \in 1..Len(failed_records) : JsonSerializable(failed_records[i]))
                         => g.doc = failed_records]_vars
    /\ [](import_calls >= 1 => Len(failed_records) >= failed_imports)

\* a second call with no failure of its own has written the records of the
\* first call again, under a later stamp
C18_Witness ==
    /\ import_calls = 2
    /\ pc = "main_completed"
    /\ Len(df) >= 1
    /\ successful_imports = Len(df)
    /\ failed_imports = 0
    /\ Len(failed_records) >= 1
    /\ Cardinality({f \in files : f.kind = "csv" /\ f.text = CsvText(failed_records)}) = 2
    /\ Cardinality({f \in files : f.kind = "json" /\ f.doc = failed_records}) = 2

====
